---- MODULE Spec2Model ----
(***************************************************************************)
(* Model of 02_streamlit/utils.py: the text normaliser (norm_str), the     *)
(* GeoJSON key detection and annotation, the CSV loader and the            *)
(* region-year metrics builder.                                            *)
(*                                                                         *)
(* Python strings are sequences of characters; a character is written by   *)
(* an ASCII name: "I", "i", " ", "-", ... and "U+00CE" (I WITH CIRCUMFLEX), *)
(* "U+00EE" (i with circumflex), "U+0302" (COMBINING CIRCUMFLEX, category  *)
(* Mn), "U+0009" (TAB).                                                    *)
(***************************************************************************)
EXTENDS Integers, Sequences, FiniteSets, TLC

VARIABLES
    nIn,      \* norm_str: the argument of the call (a Python value)
    nAlt,     \* norm_str: another spelling of the same name
    nEdits,   \* norm_str: the kinds of respelling that lead from nIn to nAlt
    nPc,      \* norm_str: "start", "called" (norm_str ran), "again" (ran on its own output)
    nOut,     \* norm_str(nIn)
    nAltOut,  \* norm_str(nAlt)
    nOut2,    \* norm_str(norm_str(nIn))
    geojson,  \* the parsed GeoJSON: its list of features
    gCalls,   \* which of the two GeoJSON functions have been called
    gKey,     \* what guess_geojson_region_key(geojson) returned
    gRes,     \* what geojson_with_norm_names(geojson) returned or raised
    csv,      \* the CSV file at data_path
    lRes,     \* what load_data returned or raised
    bRes,     \* what build_region_metrics returned or raised
    dRes,     \* what compute_matching_diagnostics returned or raised
    gFile,    \* the GeoJSON file at geojson_path
    jRes,     \* what load_geojson returned or raised
    lCache,   \* st.cache_data: the entry kept for load_data(data_path)
    jCache    \* st.cache_data: the entry kept for load_geojson(geojson_path)

vars == <<nIn, nAlt, nEdits, nPc, nOut, nAltOut, nOut2, geojson, gCalls, gKey, gRes,
          csv, lRes, bRes, dRes, gFile, jRes, lCache, jCache>>

-----------------------------------------------------------------------------
(* Bounds *)

\* longest enumerated input string of norm_str
MaxLen == 3
\* most respelling steps between the two spellings
MaxEdits == 1
\* most features of a GeoJSON collection
MaxFeatures == 2
\* most properties of a GeoJSON collection, all features together
MaxProps == 2
\* most rows of a CSV file whose cells may be empty or unparseable
MaxDirtyRows == 2
\* most rows of a CSV file whose measures are all numeric
MaxRows == 3
\* most rows of a CSV file whose regions are matched against a GeoJSON
MaxDiagRows == 2

-----------------------------------------------------------------------------
(* Python values *)

None == [t |-> "None", v |-> <<>>]
\* float('nan'): what pandas holds for an empty cell of a text column
NaN == [t |-> "float", v |-> <<"n", "a", "n">>]
Str(cs) == [t |-> "str", v |-> cs]

\* str(x) as norm_str calls it
PyStr(pv) ==
    IF pv.t = "None" THEN <<"N", "o", "n", "e">> ELSE pv.v

-----------------------------------------------------------------------------
(* Characters: the part of the Unicode tables norm_str consults *)

\* str.isspace, the separator set of str.strip() and str.split()
IsSpace(c) == c \in {" ", "U+0009"}

\* unicodedata.category(ch) = "Mn"
IsMn(c) == c = "U+0302"

\* str.lower of one character
LowerChar(c) ==
    CASE c = "I" -> "i"
      [] c = "U+00CE" -> "U+00EE"
      [] c = "L" -> "l"
      [] c = "E" -> "e"
      [] c = "D" -> "d"
      [] c = "F" -> "f"
      [] c = "R" -> "r"
      [] c = "A" -> "a"
      [] c = "N" -> "n"
      [] c = "C" -> "c"
      [] OTHER -> c

\* canonical decomposition of one character
NfdChar(c) ==
    CASE c = "U+00CE" -> <<"I", "U+0302">>
      [] c = "U+00EE" -> <<"i", "U+0302">>
      [] OTHER -> <<c>>

-----------------------------------------------------------------------------
(* norm_str, step by step *)

RECURSIVE LStrip(_)
LStrip(s) ==
    IF s # <<>> /\ IsSpace(Head(s)) THEN LStrip(Tail(s)) ELSE s

RECURSIVE RStrip(_)
RStrip(s) ==
    IF s # <<>> /\ IsSpace(s[Len(s)]) THEN RStrip(SubSeq(s, 1, Len(s) - 1)) ELSE s

\* str.strip()
Strip(s) == RStrip(LStrip(s))

\* a lower() that leaves every character as it is
LowerStr_kept(s) == s

\* str.lower()
LowerStr(s) == [i \in 1..Len(s) |-> LowerChar(s[i])]

\* unicodedata.normalize("NFD", s)
RECURSIVE Nfd(_)
Nfd(s) ==
    IF s = <<>> THEN <<>> ELSE NfdChar(Head(s)) \o Nfd(Tail(s))

\* "".join(ch for ch in s if unicodedata.category(ch) != "Mn")
RECURSIVE DropMn(_)
DropMn(s) ==
    IF s = <<>> THEN <<>>
    ELSE IF IsMn(Head(s)) THEN DropMn(Tail(s))
    ELSE <<Head(s)>> \o DropMn(Tail(s))

\* the first word of a string that starts with a non-space character
RECURSIVE FirstWord(_)
FirstWord(s) ==
    IF s = <<>> \/ IsSpace(Head(s)) THEN <<>>
    ELSE <<Head(s)>> \o FirstWord(Tail(s))

\* s.split(): the words between runs of whitespace
RECURSIVE Split(_)
Split(s) ==
    LET t == LStrip(s) IN
    IF t = <<>> THEN <<>>
    ELSE LET w == FirstWord(t) IN
         <<w>> \o Split(SubSeq(t, Len(w) + 1, Len(t)))

\* " ".join(words)
RECURSIVE JoinSp(_)
JoinSp(ws) ==
    IF ws = <<>> THEN <<>>
    ELSE IF Len(ws) = 1 THEN ws[1]
    ELSE ws[1] \o <<" ">> \o JoinSp(Tail(ws))

\* whitespace left as it stands after the marks are dropped
CollapseWs_kept(s) == s

\* " ".join(s.split())
CollapseWs(s) == JoinSp(Split(s))

\* norm_str without its test for None
norm_str_unguarded(pv) ==
    CollapseWs(DropMn(Nfd(LowerStr(Strip(PyStr(pv))))))

norm_str(pv) ==
    IF pv.t = "None" THEN <<>>
    ELSE CollapseWs(DropMn(Nfd(LowerStr(Strip(PyStr(pv))))))

-----------------------------------------------------------------------------
(* Inputs of norm_str and respellings of a name *)

normVars == <<nIn, nAlt, nEdits, nPc, nOut, nAltOut, nOut2>>
geoVars == <<geojson, gCalls, gKey, gRes>>
csvVars == <<csv, lRes, bRes>>
cacheVars == <<gFile, jRes, lCache, jCache>>
auxVars == <<dRes, cacheVars>>

\* no GeoJSON file at hand, nothing in the caches
CacheIdle ==
    /\ gFile = [exists |-> FALSE, text |-> <<>>]
    /\ jRes = [status |-> "none", gj |-> <<>>, io |-> <<>>]
    /\ lCache = <<>>
    /\ jCache = <<>>

\* nothing else is going on
AuxIdle ==
    /\ dRes = [status |-> "none", n_regions_data |-> 0, n_regions_geo |-> 0,
               missing_in_geo |-> <<>>, missing_in_data |-> <<>>]
    /\ CacheIdle

\* no CSV file at hand
CsvIdle ==
    /\ csv = [exists |-> FALSE, cols |-> {}, rows |-> <<>>]
    /\ lRes = [status |-> "none", cols |-> {}, rows |-> <<>>, io |-> <<>>]
    /\ bRes = [status |-> "none", g |-> <<>>, missing |-> {}]

\* no GeoJSON at hand
GeoIdle ==
    /\ geojson = <<>>
    /\ gCalls = {}
    /\ gKey = ""
    /\ gRes = [status |-> "none", gj |-> <<>>, key |-> ""]

\* the characters the enumerated inputs are written with
Alphabet == {"I", "i", "U+00CE", "U+0302", " ", "U+0009", "-"}

StringsUpTo(n) == UNION {[1..k -> Alphabet] : k \in 0..n}

\* "Ile-de-France" with I WITH CIRCUMFLEX
IleDeFrance1 ==
    <<"U+00CE", "l", "e", "-", "d", "e", "-", "F", "r", "a", "n", "c", "e">>
\* "ile de france"
IleDeFrance2 ==
    <<"i", "l", "e", " ", "d", "e", " ", "f", "r", "a", "n", "c", "e">>
\* "  ILE-DE-FRANCE " with I WITH CIRCUMFLEX
IleDeFrance3 ==
    <<" ", " ", "U+00CE", "L", "E", "-", "D", "E", "-", "F", "R", "A", "N", "C", "E", " ">>

NamedSpellings == {IleDeFrance1, IleDeFrance2, IleDeFrance3}

\* the kinds of difference between two of the named spellings
NamedDiff(a, b) ==
    IF {a, b} = {IleDeFrance1, IleDeFrance3} THEN <<"case", "space">>
    ELSE IF {a, b} = {IleDeFrance1, IleDeFrance2} THEN <<"case", "accent", "hyphen">>
    ELSE <<"case", "accent", "hyphen", "space">>

NormInputs ==
    {None, NaN} \cup {Str(s) : s \in StringsUpTo(MaxLen) \cup NamedSpellings}

\* the other case of a cased letter
SwapCase(c) ==
    CASE c = "i" -> "I"
      [] c = "U+00EE" -> "U+00CE"
      [] c = "l" -> "L"
      [] c = "e" -> "E"
      [] c = "d" -> "D"
      [] c = "f" -> "F"
      [] c = "r" -> "R"
      [] c = "a" -> "A"
      [] c = "n" -> "N"
      [] c = "c" -> "C"
      [] OTHER -> LowerChar(c)

\* s with the character at i replaced by the string r
Splice(s, i, r) == SubSeq(s, 1, i - 1) \o r \o SubSeq(s, i + 1, Len(s))

\* s with the string r inserted before position i
InsertAt(s, i, r) == SubSeq(s, 1, i - 1) \o r \o SubSeq(s, i, Len(s))

\* the accented and unaccented ways of writing a letter
AccentForms(c) ==
    IF c \in {"I", "U+00CE"} THEN {<<"I">>, <<"U+00CE">>, <<"I", "U+0302">>}
    ELSE IF c \in {"i", "U+00EE"} THEN {<<"i">>, <<"U+00EE">>, <<"i", "U+0302">>}
    ELSE {<<c>>}

CaseRespellings(s) ==
    {Splice(s, i, <<SwapCase(s[i])>>) : i \in {j \in 1..Len(s) : SwapCase(s[j]) # s[j]}}

AccentRespellings(s) ==
    UNION {{Splice(s, i, r) : r \in AccentForms(s[i]) \ {<<s[i]>>}} : i \in 1..Len(s)}

\* whitespace added at an end or next to whitespace, or one kind for another
SpaceRespellings(s) ==
    LET spots == {1, Len(s) + 1}
                 \cup {i \in 1..Len(s) : IsSpace(s[i])}
                 \cup {i + 1 : i \in {j \in 1..Len(s) : IsSpace(s[j])}}
    IN  UNION {{InsertAt(s, i, <<w>>) : w \in {" ", "U+0009"}} : i \in spots}
        \cup UNION {{Splice(s, i, <<w>>) : w \in {" ", "U+0009"} \ {s[i]}} :
                    i \in {j \in 1..Len(s) : IsSpace(s[j])}}

HyphenRespellings(s) ==
    {Splice(s, i, <<" ">>) : i \in {j \in 1..Len(s) : s[j] = "-"}}
    \cup {Splice(s, i, <<"-">>) : i \in {j \in 1..Len(s) : s[j] = " "}}

-----------------------------------------------------------------------------
(* Calls of norm_str *)

Respell(kind, alts) ==
    /\ nPc = "start"
    /\ nAlt.t = "str"
    /\ Len(nEdits) < MaxEdits
    /\ \E a \in alts : nAlt' = Str(a)
    /\ nEdits' = Append(nEdits, kind)
    /\ UNCHANGED <<nIn, nPc, nOut, nAltOut, nOut2>>
    /\ UNCHANGED <<geoVars, csvVars, auxVars>>

RespellCase == Respell("case", CaseRespellings(nAlt.v))

RespellAccent == Respell("accent", AccentRespellings(nAlt.v))

RespellSpace == Respell("space", SpaceRespellings(nAlt.v))

RespellHyphen == Respell("hyphen", HyphenRespellings(nAlt.v))

\* the second spelling is another of the three spellings of Ile-de-France
RespellNamed ==
    /\ nPc = "start"
    /\ nIn.t = "str"
    /\ nIn.v \in NamedSpellings
    /\ nEdits = <<>>
    /\ \E b \in NamedSpellings \ {nIn.v} :
          /\ nAlt' = Str(b)
          /\ nEdits' = NamedDiff(nIn.v, b)
    /\ UNCHANGED <<nIn, nPc, nOut, nAltOut, nOut2>>
    /\ UNCHANGED <<geoVars, csvVars, auxVars>>

\* norm_str(x) for both spellings
CallNormStr ==
    /\ nPc = "start"
    /\ nOut' = norm_str(nIn)
    /\ nAltOut' = norm_str(nAlt)
    /\ nPc' = "called"
    /\ UNCHANGED <<nIn, nAlt, nEdits, nOut2>>
    /\ UNCHANGED <<geoVars, csvVars, auxVars>>

\* norm_str(norm_str(x))
CallNormStrAgain ==
    /\ nPc = "called"
    /\ nOut2' = norm_str(Str(nOut))
    /\ nPc' = "again"
    /\ UNCHANGED <<nIn, nAlt, nEdits, nOut, nAltOut>>
    /\ UNCHANGED <<geoVars, csvVars, auxVars>>

InitNorm ==
    /\ nIn \in NormInputs
    /\ nAlt = nIn
    /\ nEdits = <<>>
    /\ nPc = "start"
    /\ nOut = <<>>
    /\ nAltOut = <<>>
    /\ nOut2 = <<>>
    /\ GeoIdle
    /\ CsvIdle
    /\ AuxIdle

NextNorm ==
    \/ RespellCase
    \/ RespellAccent
    \/ RespellSpace
    \/ RespellHyphen
    \/ RespellNamed
    \/ CallNormStr
    \/ CallNormStrAgain

SpecNorm == InitNorm /\ [][NextNorm]_vars

-----------------------------------------------------------------------------
(* GeoJSON: key detection and annotation *)

\* A feature is [p, d]: p says whether the feature's "properties" member is
\* missing ("absent"), JSON null ("null") or an object ("dict"); d is the
\* object as the sequence of its [k, v] members in file order.
PropKeys == {"nom", "NOM", "code", "region_norm"}

\* JSON null, a blank string, a name
PropVals == {None, Str(<<" ">>), Str(<<"U+00CE">>)}

DictKeys(d) == {d[i].k : i \in 1..Len(d)}

DictsOfSize(n) ==
    {d \in [1..n -> [k : PropKeys, v : PropVals]] :
        \A i, j \in 1..n : i # j => d[i].k # d[j].k}

\* the features that hold n properties
FeaturesOfSize(n) ==
    {[p |-> "dict", d |-> d] : d \in DictsOfSize(n)}
    \cup IF n = 0
         THEN {[p |-> "absent", d |-> <<>>], [p |-> "null", d |-> <<>>]}
         ELSE {}

\* the collections of at most n features holding at most b properties in all
RECURSIVE Collections(_, _)
Collections(n, b) ==
    {<<>>} \cup
    IF n = 0 THEN {}
    ELSE UNION {LET firsts == FeaturesOfSize(k)
                    rests == Collections(n - 1, b - k)
                IN  {<<f>> \o c : f \in firsts, c \in rests} :
                k \in 0..b}

candidates ==
    <<"nom", "Nom", "NOM", "name", "Name", "NAME", "region", "REGION",
      "libelle", "LIBELLE", "nom_region", "NOM_REGION">>

SetMin(S) == CHOOSE x \in S : \A y \in S : x <= y

\* features[0].get("properties", {}) or {}
FirstProps(gj) == IF gj[1].p = "dict" THEN gj[1].d ELSE <<>>

\* isinstance(v, str) and v.strip()
IsText(v) == v.t = "str" /\ Strip(v.v) # <<>>

\* the first candidate, in property order, not in candidate order
guess_first_property(gj) ==
    IF gj = <<>> THEN "nom"
    ELSE LET props == FirstProps(gj)
             hits == {i \in 1..Len(props) :
                        \E c \in 1..Len(candidates) : candidates[c] = props[i].k}
             texts == {i \in 1..Len(props) : IsText(props[i].v)}
         IN  IF hits # {} THEN props[SetMin(hits)].k
             ELSE IF texts # {} THEN props[SetMin(texts)].k
             ELSE IF props # <<>> THEN props[1].k
             ELSE "nom"

\* the default name whenever no property holds a text
guess_default_nom(gj) ==
    IF gj = <<>> THEN "nom"
    ELSE LET props == FirstProps(gj)
             hits == {c \in 1..Len(candidates) : candidates[c] \in DictKeys(props)}
             texts == {i \in 1..Len(props) : IsText(props[i].v)}
         IN  IF hits # {} THEN candidates[SetMin(hits)]
             ELSE IF texts # {} THEN props[SetMin(texts)].k
             ELSE "nom"

guess_geojson_region_key(gj) ==
    IF gj = <<>> THEN "nom"
    ELSE LET props == FirstProps(gj)
             hits == {c \in 1..Len(candidates) : candidates[c] \in DictKeys(props)}
             texts == {i \in 1..Len(props) : IsText(props[i].v)}
         IN  IF hits # {} THEN candidates[SetMin(hits)]
             ELSE IF texts # {} THEN props[SetMin(texts)].k
             ELSE IF props # <<>> THEN props[1].k
             ELSE "nom"

\* props.get(key, default)
DictGet(d, key, default) ==
    IF key \in DictKeys(d)
    THEN d[CHOOSE i \in 1..Len(d) : d[i].k = key].v
    ELSE default

\* props[key] = val: in place when the key exists, else a new last member
DictSet(d, key, val) ==
    IF key \in DictKeys(d)
    THEN [i \in 1..Len(d) |-> IF d[i].k = key THEN [k |-> key, v |-> val] ELSE d[i]]
    ELSE Append(d, [k |-> key, v |-> val])

\* one turn of the loop, for a feature whose properties are not null
AnnotateFeature(f, key) ==
    [p |-> "dict",
     d |-> DictSet(f.d, "region_norm", Str(norm_str(DictGet(f.d, key, Str(<<>>)))))]

\* The text json.dumps writes, as tokens. Of a feature the model keeps the
\* "properties" member, so the text of a feature is "{", that member if
\* there is one, "}".
Tok(t) == [tok |-> t, k |-> "", s |-> <<>>]
KeyTok(name) == [tok |-> "key", k |-> name, s |-> <<>>]
StrTok(cs) == [tok |-> "string", k |-> "", s |-> cs]

\* json.dumps of a property value: None is written null
DumpsValue(v) == IF v.t = "None" THEN Tok("null") ELSE StrTok(v.v)

RECURSIVE DumpsMembers(_)
DumpsMembers(d) ==
    IF d = <<>> THEN <<>>
    ELSE <<KeyTok(d[1].k), DumpsValue(d[1].v)>> \o DumpsMembers(Tail(d))

DumpsFeature(f) ==
    <<Tok("{")>>
    \o (CASE f.p = "absent" -> <<>>
          [] f.p = "null" -> <<KeyTok("properties"), Tok("null")>>
          [] f.p = "dict" -> <<KeyTok("properties"), Tok("{")>>
                             \o DumpsMembers(f.d) \o <<Tok("}")>>)
    \o <<Tok("}")>>

\* json.dumps(geojson): the text of each feature of the list
JsonDumps(gj) == [i \in 1..Len(gj) |-> DumpsFeature(gj[i])]

\* json.loads of a value token
LoadsValue(t) == IF t.tok = "null" THEN None ELSE Str(t.s)

\* the members between the braces of an object: key, value, key, value, ...
RECURSIVE LoadsMembers(_)
LoadsMembers(ts) ==
    IF Len(ts) < 2 THEN <<>>
    ELSE <<[k |-> ts[1].k, v |-> LoadsValue(ts[2])]>>
         \o LoadsMembers(SubSeq(ts, 3, Len(ts)))

LoadsFeature(ts) ==
    IF Len(ts) = 2 THEN [p |-> "absent", d |-> <<>>]
    ELSE IF ts[3].tok = "null" THEN [p |-> "null", d |-> <<>>]
    ELSE [p |-> "dict", d |-> LoadsMembers(SubSeq(ts, 4, Len(ts) - 2))]

\* json.loads(text) of a well-formed text
JsonLoads(text) == [i \in 1..Len(text) |-> LoadsFeature(text[i])]

\* dict(geojson): a new outer dict around the caller's own list of features
DeepCopy_shallow(gj) == [gj |-> gj, own |-> FALSE]

\* json.loads(json.dumps(geojson)): the value read back from the text; own says
\* that it is built of new objects, none of them an object of the caller
DeepCopy(gj) == [gj |-> JsonLoads(JsonDumps(gj)), own |-> TRUE]

\* What the loop has written when it returns or raises: it stops at the first
\* feature whose "properties" is null, where setdefault returns the None that
\* is there and None.get raises.
Written(gj, key) ==
    LET nulls == {i \in 1..Len(gj) : gj[i].p = "null"}
        stop == IF nulls = {} THEN Len(gj) + 1 ELSE SetMin(nulls)
    IN  [i \in 1..Len(gj) |-> IF i < stop THEN AnnotateFeature(gj[i], key) ELSE gj[i]]

geojson_with_norm_names(geojson0) ==
    LET gj == DeepCopy(geojson0).gj
        key == guess_geojson_region_key(gj)
    IN  IF \E i \in 1..Len(gj) : gj[i].p = "null"
        THEN [status |-> "AttributeError", gj |-> <<>>, key |-> ""]
        ELSE [status |-> "ok", gj |-> Written(gj, key), key |-> key]

\* the structure the caller passed, as the caller finds it after the call:
\* the loop writes to the objects of the copy
CallerAfter(geojson0) ==
    LET copy == DeepCopy(geojson0) IN
    IF copy.own THEN geojson0
    ELSE Written(copy.gj, guess_geojson_region_key(copy.gj))

CallGuessKey ==
    /\ "guess" \notin gCalls
    /\ gKey' = guess_geojson_region_key(geojson)
    /\ gCalls' = gCalls \cup {"guess"}
    /\ UNCHANGED <<geojson, gRes>>
    /\ UNCHANGED <<normVars, csvVars, auxVars>>

CallGeojsonWithNormNames ==
    /\ "annotate" \notin gCalls
    /\ gRes' = geojson_with_norm_names(geojson)
    /\ geojson' = CallerAfter(geojson)
    /\ gCalls' = gCalls \cup {"annotate"}
    /\ UNCHANGED gKey
    /\ UNCHANGED <<normVars, csvVars, auxVars>>

\* norm_str is not being called
NormIdle ==
    /\ nIn = None
    /\ nAlt = None
    /\ nEdits = <<>>
    /\ nPc = "idle"
    /\ nOut = <<>>
    /\ nAltOut = <<>>
    /\ nOut2 = <<>>

InitGeo ==
    /\ \/ geojson = <<>>
       \/ \E k \in 0..MaxProps :
             \E f \in FeaturesOfSize(k) :
                \E c \in Collections(MaxFeatures - 1, MaxProps - k) :
                   geojson = <<f>> \o c
    /\ gCalls = {}
    /\ gKey = ""
    /\ gRes = [status |-> "none", gj |-> <<>>, key |-> ""]
    /\ NormIdle
    /\ CsvIdle
    /\ AuxIdle

NextGeo ==
    \/ CallGuessKey
    \/ CallGeojsonWithNormNames

SpecGeo == InitGeo /\ [][NextGeo]_vars

-----------------------------------------------------------------------------
(* load_data: the CSV file and the table read from it *)

\* A file is [exists, cols, rows]. A CSV cell is [k, v]: k is "empty" (nothing
\* between the commas), "text" (characters that are no number), "num" (a
\* number, v) or "nocol" (the file has no such column).
CsvCols == {"nom_region", "annee", "nombre", "insee_pop"}

\* A file may bring a nom_region_norm column of its own; its cells are empty.
FileCols == CsvCols \cup {"nom_region_norm"}

\* A cell of the loaded table is Null (NaN, <NA>) or Some(value).
Null == <<>>
Some(x) == <<x>>

\* a text column as read_csv returns it: an empty cell is NaN
ReadText(cell) == IF cell.k = "text" THEN Some(cell.v) ELSE Null

\* pd.to_numeric(column, errors="coerce")
ToNumeric(cell) == IF cell.k = "num" THEN Some(cell.v) ELSE Null

\* a row kept when either measure is there
KeepRow_either(r) == r.nombre # Null \/ r.insee_pop # Null

\* df["nombre"].notna() & df["insee_pop"].notna()
KeepRow(r) == r.nombre # Null /\ r.insee_pop # Null

\* the value Series.map hands to norm_str
CellValue(c) == IF c = Null THEN NaN ELSE Str(c[1])

\* io lists what the call does with the file: data_path.exists(), then
\* pd.read_csv(data_path, ...).
load_data(file) ==
    IF ~file.exists
    THEN [status |-> "FileNotFoundError", cols |-> {}, rows |-> <<>>,
          io |-> <<"exists">>]
    ELSE LET coerced == [i \in 1..Len(file.rows) |->
                            [nom_region |-> ReadText(file.rows[i].nom_region),
                             nom_region_norm |-> Null,
                             annee |-> ToNumeric(file.rows[i].annee),
                             nombre |-> ToNumeric(file.rows[i].nombre),
                             insee_pop |-> ToNumeric(file.rows[i].insee_pop)]]
             kept == IF {"nombre", "insee_pop"} \subseteq file.cols
                     THEN SelectSeq(coerced, KeepRow)
                     ELSE coerced
             normed == IF "nom_region" \in file.cols
                       THEN [i \in 1..Len(kept) |->
                               [kept[i] EXCEPT !.nom_region_norm =
                                   Some(norm_str(CellValue(kept[i].nom_region)))]]
                       ELSE kept
         IN  [status |-> "ok",
              cols |-> file.cols \cup
                       (IF "nom_region" \in file.cols THEN {"nom_region_norm"} ELSE {}),
              rows |-> normed,
              io |-> <<"exists", "read_csv">>]

-----------------------------------------------------------------------------
(* build_region_metrics *)

\* the columns asked for, the key column forgotten
required_without_key == {"nom_region", "annee", "nombre", "insee_pop"}

required == {"nom_region", "nom_region_norm", "annee", "nombre", "insee_pop"}

\* the code point of a character: Python orders strings by it
CodePoint(c) ==
    CASE c = "U+0009" -> 9
      [] c = " " -> 32
      [] c = "-" -> 45
      [] c = "A" -> 65
      [] c = "C" -> 67
      [] c = "D" -> 68
      [] c = "E" -> 69
      [] c = "F" -> 70
      [] c = "I" -> 73
      [] c = "L" -> 76
      [] c = "N" -> 78
      [] c = "R" -> 82
      [] c = "a" -> 97
      [] c = "b" -> 98
      [] c = "c" -> 99
      [] c = "d" -> 100
      [] c = "e" -> 101
      [] c = "f" -> 102
      [] c = "g" -> 103
      [] c = "i" -> 105
      [] c = "l" -> 108
      [] c = "m" -> 109
      [] c = "n" -> 110
      [] c = "o" -> 111
      [] c = "p" -> 112
      [] c = "r" -> 114
      [] c = "t" -> 116
      [] c = "U+00CE" -> 206
      [] c = "U+00EE" -> 238
      [] c = "U+0302" -> 770

\* a < b for two Python strings
RECURSIVE StrLess(_, _)
StrLess(a, b) ==
    IF b = <<>> THEN FALSE
    ELSE IF a = <<>> THEN TRUE
    ELSE IF Head(a) # Head(b) THEN CodePoint(Head(a)) < CodePoint(Head(b))
    ELSE StrLess(Tail(a), Tail(b))

Abs(n) == IF n < 0 THEN -n ELSE n

RECURSIVE Gcd(_, _)
Gcd(a, b) == IF b = 0 THEN a ELSE Gcd(b, a % b)

\* The number n/d as <<numerator, denominator>> in lowest terms, denominator
\* positive. A float division by zero raises nothing: it gives inf, -inf or
\* nan, written <<1, 0>>, <<-1, 0>>, <<0, 0>>.
Rat(n, d) ==
    IF d = 0 THEN <<(IF n > 0 THEN 1 ELSE IF n < 0 THEN -1 ELSE 0), 0>>
    ELSE LET g == Gcd(Abs(n), Abs(d))
             sg == IF d < 0 THEN -1 ELSE 1
         IN  <<(sg * n) \div g, (sg * d) \div g>>

\* a - b; inf - inf and anything with nan is nan
RatSub(a, b) ==
    IF a[2] = 0 \/ b[2] = 0
    THEN IF a[2] = 0 /\ b[2] # 0 /\ a[1] # 0 THEN a
         ELSE IF b[2] = 0 /\ a[2] # 0 /\ b[1] # 0 THEN <<-b[1], 0>>
         ELSE <<0, 0>>
    ELSE Rat(a[1] * b[2] - b[1] * a[2], a[2] * b[2])

\* groupby(..., dropna=True): a row with a null key is in no group
HasKey(r) == r.nom_region # Null /\ r.nom_region_norm # Null /\ r.annee # Null

KeyOf(r) == <<r.nom_region[1], r.nom_region_norm[1], r.annee[1]>>

GroupKeys(rows) == {KeyOf(rows[i]) : i \in {j \in 1..Len(rows) : HasKey(rows[j])}}

\* the "count" aggregate: how many values the group has in the column
RECURSIVE SumCol_count(_, _, _)
SumCol_count(rows, key, col) ==
    IF rows = <<>> THEN 0
    ELSE (IF HasKey(Head(rows)) /\ KeyOf(Head(rows)) = key /\ Head(rows)[col] # Null
          THEN 1 ELSE 0)
         + SumCol_count(Tail(rows), key, col)

\* the "sum" aggregate of one column over one group; a null is skipped
RECURSIVE SumCol(_, _, _)
SumCol(rows, key, col) ==
    IF rows = <<>> THEN 0
    ELSE (IF HasKey(Head(rows)) /\ KeyOf(Head(rows)) = key /\ Head(rows)[col] # Null
          THEN Head(rows)[col][1] ELSE 0)
         + SumCol(Tail(rows), key, col)

\* the order groupby(sort=True) gives the groups: region, key, year
GroupLess(k1, k2) ==
    IF k1[1] # k2[1] THEN StrLess(k1[1], k2[1])
    ELSE IF k1[2] # k2[2] THEN StrLess(k1[2], k2[2])
    ELSE k1[3] < k2[3]

RECURSIVE SortedKeys(_)
SortedKeys(S) ==
    IF S = {} THEN <<>>
    ELSE LET m == CHOOSE x \in S : \A y \in S \ {x} : GroupLess(x, y)
         IN  <<m>> \o SortedKeys(S \ {m})

\* a population sum left as it is
ReplaceZero_kept(p) == Some(p)

\* g["pop_region"].replace({0: pd.NA})
ReplaceZero(p) == IF p = 0 THEN Null ELSE Some(p)

\* 1000 * (nb_region / pop_region); NA in, NA out
TauxPourMille(nb, pop) ==
    IF pop = Null THEN Null ELSE Some(Rat(1000 * nb, pop[1]))

\* the latest year of a region first
RowAfter_latest_first(r, q) ==
    IF r.nom_region # q.nom_region THEN StrLess(q.nom_region, r.nom_region)
    ELSE r.annee < q.annee

\* sort_values(["nom_region", "annee"]): r comes after q
RowAfter(r, q) ==
    IF r.nom_region # q.nom_region THEN StrLess(q.nom_region, r.nom_region)
    ELSE q.annee < r.annee

\* a stable sort: a row goes behind the rows that are not after it
RECURSIVE InsertRow(_, _)
InsertRow(sorted, r) ==
    IF sorted = <<>> THEN <<r>>
    ELSE IF RowAfter(Head(sorted), r) THEN <<r>> \o sorted
    ELSE <<Head(sorted)>> \o InsertRow(Tail(sorted), r)

RECURSIVE SortValues(_)
SortValues(rows) ==
    IF rows = <<>> THEN <<>>
    ELSE InsertRow(SortValues(SubSeq(rows, 1, Len(rows) - 1)), rows[Len(rows)])

\* a - b of two nullable numbers
OptSub(a, b) == IF a = Null \/ b = Null THEN Null ELSE Some(RatSub(a[1], b[1]))

\* Series.diff(): against the row before, whatever its region
DiffInRegion_ungrouped(rows, i) ==
    IF i = 1 THEN Null
    ELSE OptSub(rows[i].taux_region_pour_mille, rows[i - 1].taux_region_pour_mille)

\* groupby("nom_region")[...].diff(): against the row before in the same region
DiffInRegion(rows, i) ==
    LET before == {j \in 1..(i - 1) : rows[j].nom_region = rows[i].nom_region} IN
    IF before = {} THEN Null
    ELSE OptSub(rows[i].taux_region_pour_mille,
                rows[CHOOSE j \in before : \A h \in before : h <= j].taux_region_pour_mille)

\* the nulls of the difference left in
FillNa0_kept(x) == x

\* .fillna(0)
FillNa0(x) == IF x = Null THEN Some(<<0, 1>>) ELSE x

build_region_metrics(df) ==
    LET missing == required \ df.cols IN
    IF missing # {}
    THEN [status |-> "KeyError", g |-> <<>>, missing |-> missing]
    ELSE LET keys == SortedKeys(GroupKeys(df.rows))
             grouped == [i \in 1..Len(keys) |->
                 LET nb == SumCol(df.rows, keys[i], "nombre")
                     pop == ReplaceZero(SumCol(df.rows, keys[i], "insee_pop"))
                 IN  [nom_region |-> keys[i][1],
                      nom_region_norm |-> keys[i][2],
                      annee |-> keys[i][3],
                      nb_region |-> nb,
                      pop_region |-> pop,
                      taux_region_pour_mille |-> TauxPourMille(nb, pop),
                      variation_region |-> Null]]
             sorted == SortValues(grouped)
         IN  [status |-> "ok",
              g |-> [i \in 1..Len(sorted) |->
                       [sorted[i] EXCEPT !.variation_region =
                           FillNa0(DiffInRegion(sorted, i))]],
              missing |-> {}]

-----------------------------------------------------------------------------
(* The CSV files and the calls *)

EmptyText == [k |-> "empty", v |-> <<>>]
EmptyNum == [k |-> "empty", v |-> 0]
BadNum == [k |-> "text", v |-> 0]
NoText == [k |-> "nocol", v |-> <<>>]
NoNum == [k |-> "nocol", v |-> 0]
TextCell(cs) == [k |-> "text", v |-> cs]
NumCell(n) == [k |-> "num", v |-> n]

\* the rows of a file with the columns cols, any cell empty or unparseable
DirtyRows(cols) ==
    [nom_region : IF "nom_region" \in cols
                  THEN {EmptyText, TextCell(<<"U+00CE">>)} ELSE {NoText},
     annee : IF "annee" \in cols THEN {EmptyNum, NumCell(2020)} ELSE {NoNum},
     nombre : IF "nombre" \in cols THEN {EmptyNum, BadNum, NumCell(1)} ELSE {NoNum},
     insee_pop : IF "insee_pop" \in cols THEN {EmptyNum, BadNum, NumCell(0)} ELSE {NoNum}]

\* region and year of the rows of a file whose measures are all numeric
CleanKeys ==
    <<<<TextCell(<<"L">>), NumCell(2020)>>,
      <<TextCell(<<"L">>), NumCell(2021)>>,
      <<TextCell(<<"L">>), NumCell(2022)>>,
      <<TextCell(<<"U+00CE">>), NumCell(2020)>>,
      <<TextCell(<<"U+00CE">>), NumCell(2021)>>,
      <<TextCell(<<"U+00CE">>), NumCell(2022)>>,
      <<EmptyText, NumCell(2020)>>,
      <<TextCell(<<"L">>), EmptyNum>>>>

\* count and population of these rows
CleanMeasures == <<<<1, 0>>, <<1, 1>>, <<2, 0>>, <<2, 1>>>>

NCleanRows == Len(CleanKeys) * Len(CleanMeasures)

CleanRow(c) ==
    LET key == CleanKeys[(c \div Len(CleanMeasures)) + 1]
        m == CleanMeasures[(c % Len(CleanMeasures)) + 1]
    IN  [nom_region |-> key[1], annee |-> key[2],
         nombre |-> NumCell(m[1]), insee_pop |-> NumCell(m[2])]

\* region and year of the rows of a file whose rows come in any order
AnyOrderKeys ==
    <<<<TextCell(<<"U+00CE">>), NumCell(2022)>>,
      <<TextCell(<<"U+00CE">>), NumCell(2020)>>,
      <<TextCell(<<"L">>), NumCell(2021)>>,
      <<TextCell(<<"L">>), NumCell(2020)>>>>

AnyOrderRow(c) ==
    [nom_region |-> AnyOrderKeys[c][1], annee |-> AnyOrderKeys[c][2],
     nombre |-> NumCell(1), insee_pop |-> NumCell(1)]

\* the example of the specification: region "A", 10 then 20 incidents for
\* 1000 inhabitants
ExampleRows ==
    <<[nom_region |-> TextCell(<<"A">>), annee |-> NumCell(2020),
       nombre |-> NumCell(10), insee_pop |-> NumCell(1000)],
      [nom_region |-> TextCell(<<"A">>), annee |-> NumCell(2021),
       nombre |-> NumCell(20), insee_pop |-> NumCell(1000)]>>

CallLoadData ==
    /\ lRes.status = "none"
    /\ lRes' = load_data(csv)
    /\ UNCHANGED <<csv, bRes>>
    /\ UNCHANGED <<normVars, geoVars, auxVars>>

\* build_region_metrics(df) on the table load_data returned
CallBuildRegionMetrics ==
    /\ lRes.status = "ok"
    /\ bRes.status = "none"
    /\ bRes' = build_region_metrics(lRes)
    /\ UNCHANGED <<csv, lRes>>
    /\ UNCHANGED <<normVars, geoVars, auxVars>>

\* The rows of a file whose measures are all numeric are taken in one order
\* only: the sums of a group do not depend on the order of its rows. The
\* files of AnyOrderRow have theirs in every order.
Init ==
    /\ \/ csv = [exists |-> FALSE, cols |-> {}, rows |-> <<>>]
       \/ \E cols \in SUBSET FileCols :
             \E n \in 0..MaxDirtyRows :
                \E rows \in [1..n -> DirtyRows(cols)] :
                   csv = [exists |-> TRUE, cols |-> cols, rows |-> rows]
       \/ \E n \in 1..MaxRows :
             \E cs \in [1..n -> 0..(NCleanRows - 1)] :
                /\ \A i \in 1..(n - 1) : cs[i] <= cs[i + 1]
                /\ csv = [exists |-> TRUE, cols |-> CsvCols,
                          rows |-> [i \in 1..n |-> CleanRow(cs[i])]]
       \/ \E n \in 1..MaxRows :
             \E cs \in [1..n -> 1..Len(AnyOrderKeys)] :
                csv = [exists |-> TRUE, cols |-> CsvCols,
                       rows |-> [i \in 1..n |-> AnyOrderRow(cs[i])]]
       \/ csv = [exists |-> TRUE, cols |-> CsvCols, rows |-> ExampleRows]
    /\ lRes = [status |-> "none", cols |-> {}, rows |-> <<>>, io |-> <<>>]
    /\ bRes = [status |-> "none", g |-> <<>>, missing |-> {}]
    /\ NormIdle
    /\ GeoIdle
    /\ AuxIdle

Next ==
    \/ CallLoadData
    \/ CallBuildRegionMetrics

Spec == Init /\ [][Next]_vars

-----------------------------------------------------------------------------
(* compute_matching_diagnostics *)

\* every key kept, the empty one too
NonEmpty_all(r) == TRUE

\* "if r" of the set comprehension: None and "" are dropped
NonEmpty(r) == r.t = "str" /\ r.v # <<>>

\* sorted(...) of a set of strings
RECURSIVE SortedStrs(_)
SortedStrs(S) ==
    IF S = {} THEN <<>>
    ELSE LET m == CHOOSE x \in S : \A y \in S \ {x} : StrLess(x, y)
         IN  <<m>> \o SortedStrs(S \ {m})

\* g_y is a table build_region_metrics made: its nom_region_norm has no null
\* for dropna() to drop. A feature whose "properties" is null makes
\* feat.get("properties", {}).get raise.
compute_matching_diagnostics(g_y, geojson_norm) ==
    IF \E i \in 1..Len(geojson_norm) : geojson_norm[i].p = "null"
    THEN [status |-> "AttributeError", n_regions_data |-> 0, n_regions_geo |-> 0,
          missing_in_geo |-> <<>>, missing_in_data |-> <<>>]
    ELSE LET found == {DictGet(geojson_norm[i].d, "region_norm", Str(<<>>)) :
                          i \in 1..Len(geojson_norm)}
             geo_regions == {r.v : r \in {x \in found : NonEmpty(x)}}
             data_regions == {g_y[i].nom_region_norm : i \in 1..Len(g_y)}
         IN  [status |-> "ok",
              n_regions_data |-> Cardinality(data_regions),
              n_regions_geo |-> Cardinality(geo_regions),
              missing_in_geo |-> SortedStrs(data_regions \ geo_regions),
              missing_in_data |-> SortedStrs(geo_regions \ data_regions)]

\* the diagnostics of the metrics table and the annotated collection
CallComputeMatchingDiagnostics ==
    /\ bRes.status = "ok"
    /\ gRes.status = "ok"
    /\ dRes.status = "none"
    /\ dRes' = compute_matching_diagnostics(bRes.g, gRes.gj)
    /\ UNCHANGED <<normVars, geoVars, csvVars, cacheVars>>

\* region names of the files matched against a collection: two names and a
\* blank one, whose key is empty
DiagRegions == <<<<"L">>, <<"U+00CE">>, <<" ">>>>

DiagRow(c) ==
    [nom_region |-> TextCell(DiagRegions[c]), annee |-> NumCell(2020),
     nombre |-> NumCell(1), insee_pop |-> NumCell(1)]

\* features of the collections matched against a table
DiagFeatures ==
    {[p |-> "absent", d |-> <<>>],
     [p |-> "dict", d |-> <<[k |-> "nom", v |-> Str(<<"U+00CE">>)]>>],
     [p |-> "dict", d |-> <<[k |-> "nom", v |-> Str(<<"L">>)]>>],
     [p |-> "dict", d |-> <<[k |-> "nom", v |-> Str(<<" ">>)]>>]}

Bretagne == <<"b", "r", "e", "t", "a", "g", "n", "e">>
Normandie == <<"n", "o", "r", "m", "a", "n", "d", "i", "e">>
Paca == <<"p", "a", "c", "a">>

\* the example of the specification: Bretagne and Normandie in the table,
\* Bretagne and PACA on the map
DiagExampleRows ==
    <<[nom_region |-> TextCell(Bretagne), annee |-> NumCell(2020),
       nombre |-> NumCell(1), insee_pop |-> NumCell(1)],
      [nom_region |-> TextCell(Normandie), annee |-> NumCell(2020),
       nombre |-> NumCell(1), insee_pop |-> NumCell(1)]>>

DiagExampleGeo ==
    <<[p |-> "dict", d |-> <<[k |-> "nom", v |-> Str(Bretagne)]>>],
      [p |-> "dict", d |-> <<[k |-> "nom", v |-> Str(Paca)]>>]>>

InitDiag ==
    /\ \/ /\ \E n \in 0..MaxDiagRows :
                \E cs \in [1..n -> 1..Len(DiagRegions)] :
                   /\ \A i \in 1..(n - 1) : cs[i] <= cs[i + 1]
                   /\ csv = [exists |-> TRUE, cols |-> CsvCols,
                             rows |-> [i \in 1..n |-> DiagRow(cs[i])]]
          /\ \E n \in 0..MaxFeatures : geojson \in [1..n -> DiagFeatures]
       \/ /\ csv = [exists |-> TRUE, cols |-> CsvCols, rows |-> DiagExampleRows]
          /\ geojson = DiagExampleGeo
    /\ lRes = [status |-> "none", cols |-> {}, rows |-> <<>>, io |-> <<>>]
    /\ bRes = [status |-> "none", g |-> <<>>, missing |-> {}]
    /\ gCalls = {}
    /\ gKey = ""
    /\ gRes = [status |-> "none", gj |-> <<>>, key |-> ""]
    /\ NormIdle
    /\ AuxIdle

NextDiag ==
    \/ CallLoadData
    \/ CallBuildRegionMetrics
    \/ CallGeojsonWithNormNames
    \/ CallComputeMatchingDiagnostics

SpecDiag == InitDiag /\ [][NextDiag]_vars

-----------------------------------------------------------------------------
(* load_geojson and the st.cache_data around the two loaders *)

RECURSIVE MembersWellFormed(_)
MembersWellFormed(ts) ==
    \/ ts = <<>>
    \/ /\ Len(ts) >= 2
       /\ ts[1].tok = "key"
       /\ ts[2].tok \in {"null", "string"}
       /\ MembersWellFormed(SubSeq(ts, 3, Len(ts)))

\* the text of a feature is one json.loads accepts
FeatureWellFormed(ts) ==
    /\ Len(ts) >= 2
    /\ ts[1].tok = "{"
    /\ ts[Len(ts)].tok = "}"
    /\ \/ Len(ts) = 2
       \/ /\ Len(ts) = 4
          /\ ts[2] = KeyTok("properties")
          /\ ts[3].tok = "null"
       \/ /\ Len(ts) >= 5
          /\ ts[2] = KeyTok("properties")
          /\ ts[3].tok = "{"
          /\ ts[Len(ts) - 1].tok = "}"
          /\ MembersWellFormed(SubSeq(ts, 4, Len(ts) - 2))

WellFormed(text) == \A i \in 1..Len(text) : FeatureWellFormed(text[i])

\* A GeoJSON file is [exists, text]. io lists what the call does with the
\* file: geojson_path.exists(), geojson_path.read_text(), json.loads(text).
load_geojson(file) ==
    IF ~file.exists
    THEN [status |-> "FileNotFoundError", gj |-> <<>>, io |-> <<"exists">>]
    ELSE IF ~WellFormed(file.text)
    THEN [status |-> "JSONDecodeError", gj |-> <<>>,
          io |-> <<"exists", "read_text", "json.loads">>]
    ELSE [status |-> "ok", gj |-> JsonLoads(file.text),
          io |-> <<"exists", "read_text", "json.loads">>]

\* @st.cache_data(show_spinner=False), no ttl and no max_entries: the entry is
\* found by the function and the value of its arguments, here the path. A
\* call that finds an entry returns it and does not run the function; a call
\* that finds none runs the function and keeps what it returns; what the
\* function raises is not kept. entry is <<>> or <<the value kept>>, body
\* what running the function now gives.
cache_data(entry, body) ==
    IF entry # <<>>
    THEN [out |-> [entry[1] EXCEPT !.io = <<>>], entry |-> entry]
    ELSE [out |-> body, entry |-> IF body.status = "ok" THEN <<body>> ELSE <<>>]

\* the files the path may hold: none, the example, a file of one row, a file
\* with the year column only
CsvFiles ==
    {[exists |-> FALSE, cols |-> {}, rows |-> <<>>],
     [exists |-> TRUE, cols |-> CsvCols, rows |-> ExampleRows],
     [exists |-> TRUE, cols |-> CsvCols, rows |-> <<DiagRow(1)>>],
     [exists |-> TRUE, cols |-> {"annee"}, rows |-> <<>>]}

\* none, the example, a collection of one feature, a text cut short
GeojsonFiles ==
    {[exists |-> FALSE, text |-> <<>>],
     [exists |-> TRUE, text |-> JsonDumps(DiagExampleGeo)],
     [exists |-> TRUE, text |-> JsonDumps(<<[p |-> "null", d |-> <<>>]>>)],
     [exists |-> TRUE, text |-> <<<<Tok("{"), KeyTok("properties")>>>>]}

\* load_data(), as the pages call it
CallCachedLoadData ==
    /\ LET r == cache_data(lCache, load_data(csv)) IN
          /\ lRes' = r.out
          /\ lCache' = r.entry
    /\ UNCHANGED <<csv, bRes, dRes, gFile, jRes, jCache>>
    /\ UNCHANGED <<normVars, geoVars>>

\* load_geojson(), as the pages call it
CallCachedLoadGeojson ==
    /\ LET r == cache_data(jCache, load_geojson(gFile)) IN
          /\ jRes' = r.out
          /\ jCache' = r.entry
    /\ UNCHANGED <<gFile, lCache, dRes>>
    /\ UNCHANGED <<normVars, geoVars, csvVars>>

\* the CSV file is replaced or removed while the application runs
WriteCsvFile ==
    /\ \E f \in CsvFiles \ {csv} : csv' = f
    /\ UNCHANGED <<lRes, bRes, dRes, cacheVars>>
    /\ UNCHANGED <<normVars, geoVars>>

\* the GeoJSON file is replaced or removed while the application runs
WriteGeojsonFile ==
    /\ \E f \in GeojsonFiles \ {gFile} : gFile' = f
    /\ UNCHANGED <<jRes, lCache, jCache, dRes>>
    /\ UNCHANGED <<normVars, geoVars, csvVars>>

InitCache ==
    /\ csv \in CsvFiles
    /\ gFile \in GeojsonFiles
    /\ lRes = [status |-> "none", cols |-> {}, rows |-> <<>>, io |-> <<>>]
    /\ jRes = [status |-> "none", gj |-> <<>>, io |-> <<>>]
    /\ lCache = <<>>
    /\ jCache = <<>>
    /\ bRes = [status |-> "none", g |-> <<>>, missing |-> {}]
    /\ dRes = [status |-> "none", n_regions_data |-> 0, n_regions_geo |-> 0,
               missing_in_geo |-> <<>>, missing_in_data |-> <<>>]
    /\ NormIdle
    /\ GeoIdle

NextCache ==
    \/ CallCachedLoadData
    \/ CallCachedLoadGeojson
    \/ WriteCsvFile
    \/ WriteGeojsonFile

SpecCache == InitCache /\ [][NextCache]_vars

-----------------------------------------------------------------------------
(* Claims about load_data and build_region_metrics *)

Loaded == lRes.status = "ok"
Built == bRes.status = "ok"

\* the sum of the values of a function with a finite domain
RECURSIVE FnSum(_)
FnSum(f) ==
    IF DOMAIN f = {} THEN 0
    ELSE LET i == CHOOSE j \in DOMAIN f : TRUE
         IN  f[i] + FnSum([j \in DOMAIN f \ {i} |-> f[j]])

\* the rows of the loaded table that have the region, key and year of x
Members(x) ==
    {i \in 1..Len(lRes.rows) :
        /\ lRes.rows[i].nom_region = Some(x.nom_region)
        /\ lRes.rows[i].nom_region_norm = Some(x.nom_region_norm)
        /\ lRes.rows[i].annee = Some(x.annee)}

GroupTotal(x, col) == FnSum([i \in Members(x) |-> lRes.rows[i][col][1]])

\* r is the number 1000 * nb / pop
IsRate(r, nb, pop) == r[2] > 0 /\ r[1] * pop = 1000 * nb * r[2]

OneRowPerGroup ==
    \A j, k \in 1..Len(bRes.g) :
        (/\ bRes.g[j].nom_region = bRes.g[k].nom_region
         /\ bRes.g[j].nom_region_norm = bRes.g[k].nom_region_norm
         /\ bRes.g[j].annee = bRes.g[k].annee) => j = k

SpecExampleRates ==
    csv.rows = ExampleRows =>
        /\ Len(bRes.g) = 2
        /\ bRes.g[1].taux_region_pour_mille = Some(<<10, 1>>)
        /\ bRes.g[2].taux_region_pour_mille = Some(<<20, 1>>)

EarlierYears(j) ==
    {k \in 1..Len(bRes.g) :
        /\ bRes.g[k].nom_region = bRes.g[j].nom_region
        /\ bRes.g[k].annee < bRes.g[j].annee}

\* the row of the year just before the year of row j, in the same region
PreviousYear(j) ==
    CHOOSE k \in EarlierYears(j) :
        \A h \in EarlierYears(j) : bRes.g[h].annee <= bRes.g[k].annee

\* v = a - b
IsDifference(v, a, b) ==
    v[2] > 0 /\ v[1] * a[2] * b[2] = v[2] * (a[1] * b[2] - b[1] * a[2])

OneRowPerRegionYear ==
    \A j, k \in 1..Len(bRes.g) :
        (/\ bRes.g[j].nom_region = bRes.g[k].nom_region
         /\ bRes.g[j].annee = bRes.g[k].annee) => j = k

\* C2 as stated: in a region, the row of the first year has variation 0 and
\* every later row has variation = its rate minus the rate of the row of the
\* previous year of the region; no difference is taken across regions or
\* inside a (region, year) group.
C2_VariationIsYearDifference ==
    Built =>
        /\ OneRowPerRegionYear
        /\ \A j \in 1..Len(bRes.g) :
              IF EarlierYears(j) = {}
              THEN bRes.g[j].variation_region = Some(<<0, 1>>)
              ELSE /\ bRes.g[j].taux_region_pour_mille # Null
                   /\ bRes.g[PreviousYear(j)].taux_region_pour_mille # Null
                   /\ bRes.g[j].variation_region # Null
                   /\ IsDifference(bRes.g[j].variation_region[1],
                                   bRes.g[j].taux_region_pour_mille[1],
                                   bRes.g[PreviousYear(j)].taux_region_pour_mille[1])

\* C2 amended: in a region, the row of the first year has variation 0; a later
\* row whose rate and whose previous year's rate are both defined has
\* variation = its rate minus the rate of the previous year of the region; a
\* later row with one of the two rates undefined has variation 0. No
\* difference is taken across regions or inside a (region, year) group.
C2_VariationIsDifferenceOfDefinedRates ==
    Built =>
        /\ OneRowPerRegionYear
        /\ \A j \in 1..Len(bRes.g) :
              IF EarlierYears(j) = {}
              THEN bRes.g[j].variation_region = Some(<<0, 1>>)
              ELSE IF \/ bRes.g[j].taux_region_pour_mille = Null
                      \/ bRes.g[PreviousYear(j)].taux_region_pour_mille = Null
              THEN bRes.g[j].variation_region = Some(<<0, 1>>)
              ELSE /\ bRes.g[j].variation_region # Null
                   /\ IsDifference(bRes.g[j].variation_region[1],
                                   bRes.g[j].taux_region_pour_mille[1],
                                   bRes.g[PreviousYear(j)].taux_region_pour_mille[1])
        /\ csv.rows = ExampleRows =>
              /\ bRes.g[1].variation_region = Some(<<0, 1>>)
              /\ bRes.g[2].variation_region = Some(<<10, 1>>)

\* two regions: the first year of the second region follows a row of the
\* first region, its second year follows its first
C2_Witness ==
    /\ Built
    /\ Len(bRes.g) = 3
    /\ bRes.g[1].nom_region = <<"L">>
    /\ bRes.g[1].taux_region_pour_mille = Some(<<1000, 1>>)
    /\ bRes.g[2].nom_region = <<"U+00CE">>
    /\ bRes.g[2].taux_region_pour_mille = Some(<<2000, 1>>)
    /\ bRes.g[2].variation_region = Some(<<0, 1>>)
    /\ bRes.g[3].nom_region = <<"U+00CE">>
    /\ bRes.g[3].taux_region_pour_mille = Some(<<1000, 1>>)
    /\ bRes.g[3].variation_region = Some(<<-1000, 1>>)

\* C3: a group whose population sums to zero does not make
\* build_region_metrics raise and has a null rate, not zero and not infinite;
\* a group whose population does not sum to zero has a rate.
C3_NullRateIffZeroPopulation ==
    /\ (Loaded /\ required \subseteq lRes.cols /\ bRes.status # "none") => Built
    /\ Built =>
          \A j \in 1..Len(bRes.g) :
              LET x == bRes.g[j] IN
              /\ GroupTotal(x, "insee_pop") = 0 <=> x.taux_region_pour_mille = Null
              /\ x.taux_region_pour_mille # Null => x.taux_region_pour_mille[1][2] > 0

\* one group without population beside one with
C3_Witness ==
    /\ Built
    /\ Len(bRes.g) = 2
    /\ bRes.g[1].nb_region = 2
    /\ GroupTotal(bRes.g[1], "insee_pop") = 0
    /\ bRes.g[1].taux_region_pour_mille = Null
    /\ bRes.g[2].taux_region_pour_mille = Some(<<1000, 1>>)

\* a CSV row with a number in both measures
BothNumeric(r) == r.nombre.k = "num" /\ r.insee_pop.k = "num"

\* the loaded table holds the rows of `rows`, in their order
SameRows(rows) ==
    /\ Len(lRes.rows) = Len(rows)
    /\ \A i \in 1..Len(rows) :
          /\ lRes.rows[i].nombre = ToNumeric(rows[i].nombre)
          /\ lRes.rows[i].insee_pop = ToNumeric(rows[i].insee_pop)
          /\ lRes.rows[i].annee = ToNumeric(rows[i].annee)
          /\ lRes.rows[i].nom_region = ReadText(rows[i].nom_region)

\* C4 as stated: whatever file load_data loads, no row it returns has a null
\* nombre or a null insee_pop: the rows with an absent or unparseable measure
\* are left out, the rows with both measures numeric are kept.
C4_NoNullMeasure ==
    Loaded =>
        /\ \A i \in 1..Len(lRes.rows) :
              /\ "nombre" \in lRes.cols => lRes.rows[i].nombre # Null
              /\ "insee_pop" \in lRes.cols => lRes.rows[i].insee_pop # Null
        /\ SameRows(SelectSeq(csv.rows, BothNumeric))

\* C4 amended: when the file has both the nombre and the insee_pop column, no
\* row load_data returns has a null nombre or a null insee_pop: the rows with
\* an absent or unparseable measure are left out, the rows with both measures
\* numeric are kept. (A file without one of the two columns is not filtered.)
C4_NoNullMeasureWhenBothColumns ==
    (Loaded /\ {"nombre", "insee_pop"} \subseteq csv.cols) =>
        /\ \A i \in 1..Len(lRes.rows) :
              /\ lRes.rows[i].nombre # Null
              /\ lRes.rows[i].insee_pop # Null
        /\ SameRows(SelectSeq(csv.rows, BothNumeric))

\* an unparseable count in the first row, a population of zero in the second
C4_Witness ==
    /\ Loaded
    /\ {"nombre", "insee_pop"} \subseteq csv.cols
    /\ Len(csv.rows) = 2
    /\ csv.rows[1].nombre = BadNum
    /\ csv.rows[1].insee_pop = NumCell(0)
    /\ BothNumeric(csv.rows[2])
    /\ csv.rows[2].insee_pop = NumCell(0)
    /\ Len(lRes.rows) = 1
    /\ lRes.rows[1].insee_pop = Some(0)

\* the five columns build_region_metrics needs
FiveColumns == {"nom_region", "nom_region_norm", "annee", "nombre", "insee_pop"}

\* C14: on a table that lacks one of the five columns, build_region_metrics
\* raises KeyError naming the columns of the five that the table lacks, these
\* and no other, and returns no table; on a table with the five it does not
\* raise.
C14_KeyErrorNamesAbsentColumns ==
    (Loaded /\ bRes.status # "none") =>
        IF FiveColumns \subseteq lRes.cols
        THEN bRes.status = "ok"
        ELSE /\ bRes.status = "KeyError"
             /\ bRes.missing = {c \in FiveColumns : c \notin lRes.cols}
             /\ bRes.g = <<>>

\* a file with a key column of its own and neither region name nor population
C14_Witness ==
    /\ Loaded
    /\ lRes.cols = {"nom_region_norm", "annee", "nombre"}
    /\ Len(lRes.rows) = 2
    /\ bRes.status = "KeyError"
    /\ bRes.missing = {"nom_region", "insee_pop"}
    /\ bRes.g = <<>>

\* the (region name, year) pairs of the loaded table: the rows that have
\* both a region name and a year
PairsPresent ==
    {<<lRes.rows[i].nom_region[1], lRes.rows[i].annee[1]>> :
        i \in {k \in 1..Len(lRes.rows) :
                 lRes.rows[k].nom_region # Null /\ lRes.rows[k].annee # Null}}

\* C16: the table build_region_metrics makes of a table of load_data has one
\* row for each (region name, year) pair of the input, as many rows as there
\* are pairs and so no other row, and its rows ascend by region name and,
\* inside a region, by year. (A row without region name or without year
\* brings no pair.)
C16_OneRowPerPairInOrder ==
    Built =>
        /\ {<<bRes.g[j].nom_region, bRes.g[j].annee>> : j \in 1..Len(bRes.g)}
              = PairsPresent
        /\ Len(bRes.g) = Cardinality(PairsPresent)
        /\ \A j \in 1..(Len(bRes.g) - 1) :
              \/ StrLess(bRes.g[j].nom_region, bRes.g[j + 1].nom_region)
              \/ /\ bRes.g[j].nom_region = bRes.g[j + 1].nom_region
                 /\ bRes.g[j].annee < bRes.g[j + 1].annee

\* the file has the later region first and its later year first
C16_Witness ==
    /\ Built
    /\ Len(lRes.rows) = 3
    /\ lRes.rows[1].nom_region = Some(<<"U+00CE">>) /\ lRes.rows[1].annee = Some(2022)
    /\ lRes.rows[2].nom_region = Some(<<"U+00CE">>) /\ lRes.rows[2].annee = Some(2020)
    /\ lRes.rows[3].nom_region = Some(<<"L">>) /\ lRes.rows[3].annee = Some(2021)
    /\ Len(bRes.g) = 3
    /\ bRes.g[1].nom_region = <<"L">> /\ bRes.g[1].annee = 2021
    /\ bRes.g[2].nom_region = <<"U+00CE">> /\ bRes.g[2].annee = 2020
    /\ bRes.g[3].nom_region = <<"U+00CE">> /\ bRes.g[3].annee = 2022

\* C18: when the file has a nom_region column, every row load_data returns
\* has nom_region_norm = norm_str of its region name, and the empty string
\* when the row has no region name.
C18_KeyIsNormalizedName ==
    (Loaded /\ "nom_region" \in csv.cols) =>
        \A i \in 1..Len(lRes.rows) :
            lRes.rows[i].nom_region_norm =
                IF lRes.rows[i].nom_region = Null THEN Some(<<>>)
                ELSE Some(norm_str(Str(lRes.rows[i].nom_region[1])))

Zero == <<0, 1>>

-----------------------------------------------------------------------------
(* Claims about norm_str *)

\* "ile-de-france"
IleDeFranceKey ==
    <<"i", "l", "e", "-", "d", "e", "-", "f", "r", "a", "n", "c", "e">>

NoHyphenEdit == \A i \in 1..Len(nEdits) : nEdits[i] # "hyphen"

\* C5 as stated: two spellings of a name that differ in case, accents,
\* whitespace or hyphen-versus-space separators, the three spellings of
\* Ile-de-France among them, get one and the same key.
C5_OneKeyForAllSpellings ==
    nPc \in {"called", "again"} => nOut = nAltOut

\* C5 amended: two spellings that differ only in case, accents or
\* surrounding/repeated whitespace get the same key; a hyphen is kept, so
\* "Ile-de-France" and "  ILE-DE-FRANCE " both give "ile-de-france" while
\* "ile de france" gives "ile de france".
C5_OneKeyUpToCaseAccentSpace ==
    nPc \in {"called", "again"} =>
        /\ NoHyphenEdit => nOut = nAltOut
        /\ nIn \in {Str(IleDeFrance1), Str(IleDeFrance3)} => nOut = IleDeFranceKey
        /\ nIn = Str(IleDeFrance2) => nOut = IleDeFrance2 /\ nOut # IleDeFranceKey

C5_Witness ==
    /\ nPc = "called"
    /\ nIn = Str(IleDeFrance1)
    /\ nAlt = Str(IleDeFrance3)
    /\ nOut = IleDeFranceKey
    /\ nAltOut = IleDeFranceKey

\* C6: norm_str(norm_str(s)) = norm_str(s), and an output of norm_str is
\* lowercase, without combining marks, without whitespace at its ends and
\* without two whitespace characters in a row.
C6_Idempotent ==
    nPc = "again" =>
        /\ nOut2 = nOut
        /\ \A i \in 1..Len(nOut) : LowerChar(nOut[i]) = nOut[i] /\ ~IsMn(nOut[i])
        /\ nOut # <<>> => ~IsSpace(nOut[1]) /\ ~IsSpace(nOut[Len(nOut)])
        /\ \A i \in 1..(Len(nOut) - 1) : ~(IsSpace(nOut[i]) /\ IsSpace(nOut[i + 1]))

\* a string that ends in whitespace once its combining mark is dropped
C6_Witness ==
    /\ nPc = "again"
    /\ nIn = Str(<<"U+00CE", " ", "U+0302">>)
    /\ nOut = <<"i">>
    /\ nOut2 = <<"i">>

\* C7: norm_str of None is the empty string.
C7_NoneGivesEmpty ==
    (nPc \in {"called", "again"} /\ nIn = None) => nOut = <<>>

C7_Witness ==
    /\ nPc = "called"
    /\ nIn = None
    /\ nOut = <<>>

-----------------------------------------------------------------------------
(* Claims about the GeoJSON functions *)

\* the name of a candidate that is a property of the first feature
HasCandidate ==
    /\ geojson # <<>>
    /\ \E c \in 1..Len(candidates) : candidates[c] \in DictKeys(FirstProps(geojson))

\* C8: when a candidate name is a property of the first feature, the key
\* returned is the earliest such candidate of the candidate list, whatever
\* the order and values of the properties and whatever the other features.
C8_EarliestCandidate ==
    ("guess" \in gCalls /\ HasCandidate) =>
        \E c \in 1..Len(candidates) :
            /\ gKey = candidates[c]
            /\ gKey \in DictKeys(FirstProps(geojson))
            /\ \A b \in 1..(c - 1) : candidates[b] \notin DictKeys(FirstProps(geojson))

\* "NOM" comes first in the file, "nom" first in the candidate list
C8_Witness ==
    /\ "guess" \in gCalls
    /\ Len(geojson) = 2
    /\ Len(FirstProps(geojson)) = 2
    /\ FirstProps(geojson)[1].k = "NOM"
    /\ FirstProps(geojson)[2].k = "nom"
    /\ gKey = "nom"

\* C9 as stated: without a candidate, the key is the first property whose
\* value is a non-empty string, and the default "nom" when there is none.
C9_FallbackThenDefault ==
    ("guess" \in gCalls /\ ~HasCandidate) =>
        LET props == IF geojson = <<>> THEN <<>> ELSE FirstProps(geojson)
            strs == {i \in 1..Len(props) : props[i].v.t = "str" /\ props[i].v.v # <<>>}
        IN  IF strs # {} THEN gKey = props[SetMin(strs)].k ELSE gKey = "nom"

\* C9 amended: without a candidate, the key is the first property whose value
\* is a string with a non-whitespace character; when there is none, it is the
\* name of the first property of the first feature; it is the default "nom"
\* only when the first feature has no property or the collection is empty.
C9_FallbackThenFirstProperty ==
    ("guess" \in gCalls /\ ~HasCandidate) =>
        LET props == IF geojson = <<>> THEN <<>> ELSE FirstProps(geojson)
            texts == {i \in 1..Len(props) :
                        /\ props[i].v.t = "str"
                        /\ \E j \in 1..Len(props[i].v.v) : ~IsSpace(props[i].v.v[j])}
        IN  /\ texts # {} => gKey = props[SetMin(texts)].k
            /\ (texts = {} /\ props # <<>>) => gKey = props[1].k
            /\ props = <<>> => gKey = "nom"

\* a first feature whose properties hold no text
C9_Witness ==
    /\ "guess" \in gCalls
    /\ Len(geojson) = 1
    /\ Len(FirstProps(geojson)) = 2
    /\ FirstProps(geojson)[1] = [k |-> "code", v |-> None]
    /\ FirstProps(geojson)[2] = [k |-> "region_norm", v |-> Str(<<" ">>)]
    /\ gKey = "code"

\* C10: geojson_with_norm_names returns, for every collection, the detected
\* key and a collection whose every feature, also one without the key or
\* with no or null properties, has region_norm = norm_str of its value at
\* the detected key, the empty string when there is no value.
C10_EveryFeatureAnnotated ==
    "annotate" \in gCalls =>
        /\ gRes.status = "ok"
        /\ gRes.key = guess_geojson_region_key(geojson)
        /\ Len(gRes.gj) = Len(geojson)
        /\ \A i \in 1..Len(geojson) :
              /\ gRes.gj[i].p = "dict"
              /\ "region_norm" \in DictKeys(gRes.gj[i].d)
              /\ DictGet(gRes.gj[i].d, "region_norm", None)
                   = Str(norm_str(DictGet(geojson[i].d, gRes.key, Str(<<>>))))

\* C11: in what geojson_with_norm_names returns, every feature holds the
\* properties of the source feature, each under its name and with its value,
\* in their order, and one property more, region_norm, the source has not.
C11_SourcePropertiesKept ==
    ("annotate" \in gCalls /\ gRes.status = "ok") =>
        \A i \in 1..Len(geojson) :
            LET src == geojson[i].d
                out == gRes.gj[i].d
            IN  /\ "region_norm" \notin DictKeys(src)
                /\ Len(out) = Len(src) + 1
                /\ SubSeq(out, 1, Len(src)) = src
                /\ out[Len(out)].k = "region_norm"

-----------------------------------------------------------------------------
(* Claims about compute_matching_diagnostics *)

\* the keys of the metrics table
DataKeys == {bRes.g[i].nom_region_norm : i \in 1..Len(bRes.g)}

\* the region_norm of the features of the annotated collection, the empty
\* ones left out
GeoKeys ==
    {k \in {DictGet(gRes.gj[i].d, "region_norm", Str(<<>>)).v : i \in 1..Len(gRes.gj)} :
        k # <<>>}

\* s lists the strings of S, each once, in ascending order
ListsSorted(s, S) ==
    /\ {s[i] : i \in 1..Len(s)} = S
    /\ \A i \in 1..(Len(s) - 1) : StrLess(s[i], s[i + 1])

\* C13: compute_matching_diagnostics does not raise; missing_in_geo is the
\* sorted list of the keys of the metrics table that are no non-empty
\* region_norm of the collection, missing_in_data the sorted list of the
\* non-empty region_norm that are no key of the table, n_regions_data and
\* n_regions_geo the number of keys of the table and of non-empty region_norm.
\* The table {bretagne, normandie} and the collection {bretagne, paca} give
\* [normandie] and [paca].
C13_DiagnosticsAreSetDifferences ==
    dRes.status # "none" =>
        /\ dRes.status = "ok"
        /\ ListsSorted(dRes.missing_in_geo, DataKeys \ GeoKeys)
        /\ ListsSorted(dRes.missing_in_data, GeoKeys \ DataKeys)
        /\ dRes.n_regions_data = Cardinality(DataKeys)
        /\ dRes.n_regions_geo = Cardinality(GeoKeys)
        /\ geojson = DiagExampleGeo =>
              /\ dRes.missing_in_geo = <<Normandie>>
              /\ dRes.missing_in_data = <<Paca>>

\* a table with the keys "", "i" against a collection with the keys "", "l":
\* the empty key counts in the table and not in the collection
C13_Witness ==
    /\ dRes.status = "ok"
    /\ DataKeys = {<<>>, <<"i">>}
    /\ Len(gRes.gj) = 2
    /\ dRes.n_regions_data = 2
    /\ dRes.n_regions_geo = 1
    /\ dRes.missing_in_geo = <<<<>>, <<"i">>>>
    /\ dRes.missing_in_data = <<<<"l">>>>

-----------------------------------------------------------------------------
(* Claims about the loaders and their cache *)

\* C15: load_data and load_geojson called while there is no file at the path
\* raise FileNotFoundError after the test for the file alone, nothing read
\* and nothing parsed, and return no table and no collection.
C15_NotFoundBeforeAnyRead ==
    [][/\ (CallCachedLoadData /\ ~csv.exists) =>
              /\ lRes'.status = "FileNotFoundError"
              /\ lRes'.io = <<"exists">>
              /\ lRes'.rows = <<>>
       /\ (CallCachedLoadGeojson /\ ~gFile.exists) =>
              /\ jRes'.status = "FileNotFoundError"
              /\ jRes'.io = <<"exists">>
              /\ jRes'.gj = <<>>]_vars

\* a and b are the same outcome: the same error, or the same table or
\* collection
SameTable(a, b) == a.status = b.status /\ a.cols = b.cols /\ a.rows = b.rows
SameCollection(a, b) == a.status = b.status /\ a.gj = b.gj

\* C17: whatever calls and changes of the files came before, a call of
\* load_data or load_geojson gives what loading the file as it is at the
\* time of the call gives.
C17_NoStaleResult ==
    [][/\ CallCachedLoadData => SameTable(lRes', load_data(csv))
       /\ CallCachedLoadGeojson => SameCollection(jRes', load_geojson(gFile))]_vars

====
